---- MODULE Spec2Model ----
(***************************************************************************)
(* A model of the RAG backend: the chunk splitter (rag/splitter.py), the   *)
(* vector store adapter (rag/vectorstore.py), the ingest pipeline and the  *)
(* answer composer (rag/pipeline.py).                                      *)
(*                                                                         *)
(* Strings are sequences of one-character strings, so that slicing,        *)
(* stripping and joining are computed as Python computes them.             *)
(***************************************************************************)
EXTENDS Integers, Sequences, FiniteSets, Bags, TLC

VARIABLES split, query, store, calls, embed

vars == <<split, query, store, calls, embed>>

\* ------------------------------------------------------------------ bounds
\* longest text handed to the splitter
MaxLen == 4
\* largest chunk_size handed to the splitter (smallest is -1)
MaxChunkSize == 3
\* largest overlap handed to the splitter (smallest is -1)
MaxOverlap == 3
\* most hits a retrieval returns (top_k)
MaxHits == 4
\* lengths of the stored chunk texts the retrieval can return: one longer than
\* the preview and the summary cut, one longer than the context cut
MidLen == 600
LongLen == 1300
\* calls one client makes one after the other
MaxCalls == 2
\* worker threads that run embed_texts at the same time
NumThreads == 3

\* ----------------------------------------------------------------- helpers
Max(a, b) == IF a >= b THEN a ELSE b
Min(a, b) == IF a <= b THEN a ELSE b

\* all sequences over S of length 0..n
SeqsUpTo(S, n) == UNION {[1..k -> S] : k \in 0..n}

\* Python's s[lo:hi] for 0 <= lo and 0 <= hi
Slice(s, lo, hi) == SubSeq(s, lo + 1, Min(hi, Len(s)))

\* ------------------------------------------------- splitter.py: the splitter
SplitChars == {"a", "b"}

\* faulty variant: the overlap is forgotten: step = chunk_size
StepIgnoresOverlap(chunk_size, overlap) == Max(chunk_size, 1)

\* step = max(chunk_size - overlap, 1)
StepOf(chunk_size, overlap) == Max(chunk_size - overlap, 1)

\* faulty variant: the window ends one character early
ChunkTextShort(text, start, chunk_size) == Slice(text, start, start + chunk_size - 1)

\* chunk_text = text[start:end] with end = start + chunk_size
ChunkText(text, start, chunk_size) == Slice(text, start, start + chunk_size)

\* faulty variant: the loop runs once more: start <= text_len
SplitCondOffByOne(l) == l.start <= Len(l.text)

\* the loop condition: start < text_len
SplitCond(l) == l.start < Len(l.text)

\* one iteration of the while loop, on the function's locals
SplitBody(l) ==
    [l EXCEPT !.chunks = Append(l.chunks,
                                [chunk_id |-> l.chunk_id,
                                 text |-> ChunkText(l.text, l.start, l.chunk_size)]),
              !.chunk_id = l.chunk_id + 1,
              !.start = l.start + l.step]

\* the guards before the loop: "returned" (empty text), "raised" or "loop"
SplitGuard(text, chunk_size, overlap) ==
    IF text = <<>> THEN "returned"
    ELSE IF chunk_size <= 0 THEN "raised"
    ELSE IF overlap < 0 THEN "raised"
    ELSE "loop"

\* the locals as the loop is entered
SplitLocals(text, chunk_size, overlap) ==
    [text |-> text, chunk_size |-> chunk_size, overlap |-> overlap,
     chunks |-> <<>>, start |-> 0, chunk_id |-> 0,
     step |-> StepOf(chunk_size, overlap)]

RECURSIVE SplitLoop(_)
SplitLoop(l) == IF SplitCond(l) THEN SplitLoop(SplitBody(l)) ELSE l.chunks

\* split_text_to_chunks as a function: [ok, chunks]; ok = FALSE is ValueError
split_text_to_chunks(text, chunk_size, overlap) ==
    LET g == SplitGuard(text, chunk_size, overlap) IN
    IF g = "returned" THEN [ok |-> TRUE, chunks |-> <<>>]
    ELSE IF g = "raised" THEN [ok |-> FALSE, chunks |-> <<>>]
    ELSE [ok |-> TRUE, chunks |-> SplitLoop(SplitLocals(text, chunk_size, overlap))]

\* the value of a component's variable while another component is examined
QueryOff == [pc |-> "off"]
SplitOff == [pc |-> "off"]
CallsOff == <<>>
EmbedOff == [pc |-> "off"]

\* --- the splitter run step by step
SplitInit ==
    /\ query = QueryOff
    /\ store = EmptyBag
    /\ embed = EmbedOff
    /\ calls = CallsOff
    /\ split \in {[pc |-> "call", iterations |-> 0, l |-> ll] :
               ll \in {[text |-> t, chunk_size |-> c, overlap |-> o,
                        chunks |-> <<>>, start |-> 0, chunk_id |-> 0, step |-> 0] :
                       t \in SeqsUpTo(SplitChars, MaxLen),
                       c \in -1..MaxChunkSize, o \in -1..MaxOverlap}}

\* lines 23-37: the guards and the initialisation of the locals
SplitEnter ==
    /\ split.pc = "call"
    /\ LET g == SplitGuard(split.l.text, split.l.chunk_size, split.l.overlap) IN
       split' = IF g = "loop"
                THEN [split EXCEPT !.pc = "loop",
                                   !.l = SplitLocals(split.l.text, split.l.chunk_size,
                                                     split.l.overlap)]
                ELSE [split EXCEPT !.pc = g]
    /\ UNCHANGED <<query, store, calls, embed>>

\* lines 39-44: one pass through the loop body
SplitIter ==
    /\ split.pc = "loop"
    /\ SplitCond(split.l)
    /\ split' = [split EXCEPT !.l = SplitBody(split.l),
                              !.iterations = split.iterations + 1]
    /\ UNCHANGED <<query, store, calls, embed>>

\* line 46: the loop condition fails, return chunks
SplitExit ==
    /\ split.pc = "loop"
    /\ ~SplitCond(split.l)
    /\ split' = [split EXCEPT !.pc = "returned"]
    /\ UNCHANGED <<query, store, calls, embed>>

SplitNext == SplitEnter \/ SplitIter \/ SplitExit

SpecSplit == SplitInit /\ [][SplitNext]_vars

\* the interpreter runs the loop to its end
SpecSplitLive == SplitInit /\ [][SplitNext]_vars /\ WF_vars(SplitNext)


\* ------------------------------------------- pipeline.py: answer_query
\* cuts of the composer
PREVIEW_LEN == 500
SUMMARY_CHUNKS == 3
SUMMARY_LEN == 200
CONTEXT_LEN == 1200

WhiteSpace == {" ", "\n", "\t"}

\* the string of n characters c
Rep(c, n) == [i \in 1..n |-> c]

\* index of the first character at or after i that is not whitespace (Len+1: none)
RECURSIVE FirstBlack(_, _)
FirstBlack(s, i) ==
    IF i > Len(s) THEN i
    ELSE IF s[i] \notin WhiteSpace THEN i ELSE FirstBlack(s, i + 1)

\* index of the last character at or before i that is not whitespace (0: none)
RECURSIVE LastBlack(_, _)
LastBlack(s, i) ==
    IF i < 1 THEN i
    ELSE IF s[i] \notin WhiteSpace THEN i ELSE LastBlack(s, i - 1)

\* str.strip()
Strip(s) == SubSeq(s, FirstBlack(s, 1), LastBlack(s, Len(s)))

\* str.replace("\n", " ")
ReplaceNewline(s) == [i \in 1..Len(s) |-> IF s[i] = "\n" THEN " " ELSE s[i]]

\* sep.join(parts)
RECURSIVE Join(_, _)
Join(sep, parts) ==
    IF parts = <<>> THEN <<>>
    ELSE IF Len(parts) = 1 THEN parts[1]
    ELSE parts[1] \o sep \o Join(sep, Tail(parts))

\* "\n\n---\n\n"
ContextSep == <<"\n", "\n", "-", "-", "-", "\n", "\n">>
\* " / "
SummarySep == <<" ", "/", " ">>

\* the rows the match_vectors RPC can return; an absent key and an empty string
\* are both <<>> (h.get(...) is falsy for either)
HitRow(i) ==
    CASE i = 1 -> [id |-> 11, document_id |-> "D1", chunk_id |-> 0, score |-> 9,
                   chunk_text |-> <<" ", "a", "\n", "b", " ">>, text |-> <<>>]
      [] i = 2 -> [id |-> 12, document_id |-> "D1", chunk_id |-> 1, score |-> 7,
                   chunk_text |-> <<>>, text |-> <<>>]
      [] i = 3 -> [id |-> 13, document_id |-> "D2", chunk_id |-> 0, score |-> 5,
                   chunk_text |-> <<>>, text |-> Rep("c", MidLen)]
      [] i = 4 -> [id |-> 14, document_id |-> "D2", chunk_id |-> 1, score |-> 3,
                   chunk_text |-> Rep("d", LongLen), text |-> Rep("e", 2)]
HitIds == 1..4

\* chunk_text = h.get("chunk_text") or h.get("text") or ""
ChunkTextOf(h) ==
    IF h.chunk_text # <<>> THEN h.chunk_text
    ELSE IF h.text # <<>> THEN h.text ELSE <<>>

\* lines 90-95: contexts, one per hit
Contexts(hits) == [i \in 1..Len(hits) |-> ChunkTextOf(HitRow(hits[i]))]

\* lines 96-102: sources, one per hit, the text cut to a preview
Sources(hits) ==
    [i \in 1..Len(hits) |->
        [id |-> HitRow(hits[i]).id,
         document_id |-> HitRow(hits[i]).document_id,
         chunk_id |-> HitRow(hits[i]).chunk_id,
         score |-> HitRow(hits[i]).score,
         text |-> Slice(ChunkTextOf(HitRow(hits[i])), 0, PREVIEW_LEN)]]

\* line 104: combined_context
CombinedContext(hits) == Strip(Join(ContextSep, Contexts(hits)))

\* line 160: the extractive summary of the first chunks
Fallback(contexts) ==
    Join(SummarySep,
         [i \in 1..Min(Len(contexts), SUMMARY_CHUNKS) |->
             Slice(ReplaceNewline(Strip(contexts[i])), 0, SUMMARY_LEN)])

\* lines 167, 173: combined_context[:1200]
ContextDump(combined_context) == Slice(combined_context, 0, CONTEXT_LEN)

\* the messages of the composer
MsgNoContext == "No relevant context found for the query."
MsgUnavailable ==
    "(LLM unavailable for the requested model; returned context summary instead.)"
MsgHttpError == "(LLM HTTP error {status} - falling back to context summary.)"
MsgCallFailed == "(LLM call failed: {e}) Context:"

\* `answer` before any assignment
Unbound == [bound |-> FALSE, marker |-> "", status |-> 0, body |-> <<>>]
Answer(marker, status, body) ==
    [bound |-> TRUE, marker |-> marker, status |-> status, body |-> body]

\* what _call_hf_sync can do: return the generated text, or raise
\*   HTTPError (raise_for_status, with the response's status),
\*   Timeout (requests.post after HF_TIMEOUT), RuntimeError (HF_API_KEY
\*   missing, before any request), ValueError (resp.json() on a bad body)
HttpErrorStatuses == {404, 410, 500}
Outcomes ==
    {[kind |-> "generated", status |-> 200]}
    \cup {[kind |-> "HTTPError", status |-> st] : st \in HttpErrorStatuses}
    \cup {[kind |-> k, status |-> 0] : k \in {"Timeout", "RuntimeError", "ValueError"}}

\* no completion call was made yet
NoOutcome == [kind |-> "none", status |-> 0]

\* does _call_hf_sync reach requests.post (line 126)?
Posts(outcome) == outcome.kind # "RuntimeError"

\* faulty variant: every HTTP error takes the summary branch
AnswerForAlwaysSummary(outcome, hits) ==
    CASE outcome.kind = "generated" -> Answer("generated", 200, <<"g">>)
      [] outcome.kind = "HTTPError" ->
            Answer(MsgUnavailable, outcome.status, Fallback(Contexts(hits)))
      [] OTHER -> Answer(MsgCallFailed, 0, ContextDump(CombinedContext(hits)))

\* lines 145-173: the answer after the try block
AnswerFor(outcome, hits) ==
    CASE outcome.kind = "generated" -> Answer("generated", 200, <<"g">>)
      [] outcome.kind = "HTTPError" ->
            IF outcome.status = 410
            THEN Answer(MsgUnavailable, 410, Fallback(Contexts(hits)))
            ELSE Answer(MsgHttpError, outcome.status,
                        ContextDump(CombinedContext(hits)))
      [] OTHER -> Answer(MsgCallFailed, 0, ContextDump(CombinedContext(hits)))

QueryInit ==
    /\ split = SplitOff
    /\ store = EmptyBag
    /\ embed = EmbedOff
    /\ calls = CallsOff
    /\ query = [pc |-> "call", hits |-> <<>>, sources |-> <<>>, answer |-> Unbound,
                outcome |-> NoOutcome, posts |-> 0, error |-> "none"]

\* line 79: embed the question (embed_texts may raise)
QEmbed ==
    /\ query.pc = "call"
    /\ \E ok \in BOOLEAN :
         query' = IF ok THEN [query EXCEPT !.pc = "embedded"]
                  ELSE [query EXCEPT !.pc = "raised", !.error = "EmbedError"]
    /\ UNCHANGED <<split, store, calls, embed>>

\* line 86: query_similar returns the hits, or raises RuntimeError
QRetrieve ==
    /\ query.pc = "embedded"
    /\ \/ \E hits \in SeqsUpTo(HitIds, MaxHits) :
            query' = [query EXCEPT !.pc = "retrieved", !.hits = hits]
       \/ query' = [query EXCEPT !.pc = "raised", !.error = "RuntimeError"]
    /\ UNCHANGED <<split, store, calls, embed>>

\* lines 90-107: contexts, sources, combined_context and the outer test
QBuild ==
    /\ query.pc = "retrieved"
    /\ query' = [query EXCEPT
                   !.sources = Sources(query.hits),
                   !.pc = IF CombinedContext(query.hits) # <<>>
                          THEN "complete" ELSE "return"]
    /\ UNCHANGED <<split, store, calls, embed>>

\* lines 138-173: the one completion call and its except branches (the else
\* of line 174 belongs to the test of line 138, which line 107 made true)
QComplete ==
    /\ query.pc = "complete"
    /\ \E outcome \in Outcomes :
         query' = [query EXCEPT
                     !.pc = "return",
                     !.outcome = outcome,
                     !.posts = query.posts + (IF Posts(outcome) THEN 1 ELSE 0),
                     !.answer = IF CombinedContext(query.hits) # <<>>
                                THEN AnswerFor(outcome, query.hits)
                                ELSE Answer(MsgNoContext, 0, <<>>)]
    /\ UNCHANGED <<split, store, calls, embed>>

\* line 177: return answer, sources (UnboundLocalError if answer was never set)
QReturn ==
    /\ query.pc = "return"
    /\ query' = IF query.answer.bound
                THEN [query EXCEPT !.pc = "returned"]
                ELSE [query EXCEPT !.pc = "raised", !.error = "UnboundLocalError"]
    /\ UNCHANGED <<split, store, calls, embed>>

QueryNext == QEmbed \/ QRetrieve \/ QBuild \/ QComplete \/ QReturn

SpecQuery == QueryInit /\ [][QueryNext]_vars

\* --------------------------------- vectorstore.py: the store and its adapter
\* rows per insert request (SUPABASE_BATCH_SIZE; the deployment modelled sets 2)
BATCH_SIZE == 2

DocIds == {"D1", "D2"}

\* no error: what _resp_has_error returns as None
NoError == ""

\* A response of the store client, as the adapter reads it:
\*   has_error / error : the `error` attribute ("" is None),
\*   status_code, http_status : 0 when the attribute is absent,
\*   data_error : the "error" key of a dict `data` ("" when there is none),
\*   acked : len(data) when `data` is a list, -1 otherwise.
Response(has_error, error, status_code, http_status, data_error, acked) ==
    [has_error |-> has_error, error |-> error, status_code |-> status_code,
     http_status |-> http_status, data_error |-> data_error, acked |-> acked]

\* the responses of a request the store carried out (n rows affected)
OkResponses(n) ==
    {Response(TRUE, "", 0, 0, "", n),
     Response(FALSE, "", 200, 0, "", n),
     Response(FALSE, "", 0, 201, "", -1),
     Response(FALSE, "", 0, 0, "", -1)}

\* the responses by which a client version reports a request the store refused
ErrResponses ==
    {Response(TRUE, "permission denied", 0, 0, "", -1),
     Response(FALSE, "", 400, 0, "", -1),
     Response(FALSE, "", 500, 0, "", -1),
     Response(FALSE, "", 0, 404, "", -1),
     Response(FALSE, "", 0, 0, "bad request", -1)}

\* what .execute() can do: answer for a request carried out, answer for a
\* request refused (nothing written), or raise (nothing written)
StoreOutcomes(n) ==
    {[kind |-> "response", applied |-> TRUE, resp |-> r] : r \in OkResponses(n)}
    \cup {[kind |-> "response", applied |-> FALSE, resp |-> r] : r \in ErrResponses}
    \cup {[kind |-> "raise", applied |-> FALSE, resp |-> Response(FALSE, "", 0, 0, "", -1)]}

\* faulty variant: only statuses above 400 count as errors
RespHasErrorAbove400(resp) ==
    IF resp.has_error
    THEN resp.error
    ELSE LET sc == IF resp.status_code # 0 THEN resp.status_code ELSE resp.http_status
         IN  IF sc # 0 /\ sc > 400 THEN "status_code"
             ELSE resp.data_error

\* _resp_has_error: the error text, or NoError
RespHasError(resp) ==
    IF resp.has_error
    THEN resp.error
    ELSE LET sc == IF resp.status_code # 0 THEN resp.status_code ELSE resp.http_status
         IN  IF sc # 0 /\ sc >= 400 THEN "status_code"
             ELSE resp.data_error

\* the bag of the elements of a sequence
RECURSIVE BagOfSeq(_)
BagOfSeq(sq) ==
    IF sq = <<>> THEN EmptyBag ELSE SetToBag({Head(sq)}) (+) BagOfSeq(Tail(sq))

\* faulty variant: the filter matches no row
DeleteNothing(table, document_id) == table

\* the store's delete().eq("document_id", document_id)
DeleteDoc(table, document_id) ==
    [r \in {x \in DOMAIN table : x.document_id # document_id} |-> table[r]]

\* the store's insert(batch)
InsertRows(table, batch) == table (+) BagOfSeq(batch)

\* the rows of one document
RowsOf(table, document_id) ==
    [r \in {x \in DOMAIN table : x.document_id = document_id} |-> table[r]]

\* embed_texts: one vector per text, the same vector for the same text
EmbedOf(t) == <<"vec", t>>
embed_texts(texts) == [i \in 1..Len(texts) |-> EmbedOf(texts[i])]

\* lines 155-167: the rows of a call, chunk_id = position
Rows(c) ==
    [i \in 1..Len(c.chunks) |->
        [document_id |-> c.document_id,
         chunk_id |-> i - 1,
         chunk_text |-> c.chunks[i],
         embedding |-> c.embeddings[i],
         metadata |-> c.metadata.list[i]]]

\* _chunks_iterable: the batch that starts at offset i
BatchAt(rows, i) == Slice(rows, i, i + BATCH_SIZE)

\* ------------------------------------------- ingest.py and pipeline.py
\* uploaded files: the bytes as text, and whether the extractor can read them
Files ==
    {[filename |-> "long.txt", text |-> <<"a", "b", "c", "d", "e">>, readable |-> TRUE],
     [filename |-> "short.txt", text |-> <<"x", "y">>, readable |-> TRUE],
     [filename |-> "empty.txt", text |-> <<>>, readable |-> TRUE],
     [filename |-> "broken.pdf", text |-> <<>>, readable |-> FALSE]}

\* chunking parameters a caller of process_document passes
ChunkParams ==
    {[chunk_size |-> 2, overlap |-> 0], [chunk_size |-> 2, overlap |-> 1],
     [chunk_size |-> 0, overlap |-> 0]}

\* arguments of a direct call of upsert_embeddings
NoMetadata == [given |-> FALSE, list |-> <<>>]
Metadata(list) == [given |-> TRUE, list |-> list]
EmptyDict == "{}"
UpsertChunks == <<<<"p">>, <<"q">>, <<"r">>>>
UpsertArgs ==
    {[document_id |-> d, chunks |-> UpsertChunks,
      embeddings |-> embed_texts(SubSeq(UpsertChunks, 1, ne)),
      metadata |-> m, delete_existing |-> de] :
        d \in DocIds, ne \in {2, 3},
        m \in {NoMetadata, Metadata([i \in 1..3 |-> EmptyDict]),
               Metadata([i \in 1..1 |-> EmptyDict])},
        de \in BOOLEAN}

Procs == {1, 2}

\* there was no earlier call
NoPrev == [op |-> "none", pc |-> "idle", document_id |-> "", chunks |-> <<>>]

\* a client that has made no call yet
Idle ==
    [pc |-> "idle", op |-> "none", ncalls |-> 0,
     document_id |-> "", file |-> "", text |-> <<>>,
     chunk_size |-> 0, overlap |-> 0,
     chunks |-> <<>>, embeddings |-> <<>>, metadata |-> NoMetadata,
     delete_existing |-> FALSE, i |-> 0, inserted |-> 0,
     log |-> <<>>, error |-> "none", result |-> "none",
     before |-> EmptyBag, prev |-> NoPrev]

\* what a finished call leaves for the next one to be compared with
Summary(c) ==
    [op |-> c.op, pc |-> c.pc, document_id |-> c.document_id, chunks |-> c.chunks]

CallEnded(c) == c.pc \in {"idle", "returned", "raised"}

Raise(c, error) == [c EXCEPT !.pc = "raised", !.error = error]

IngestInit ==
    /\ split = SplitOff
    /\ query = QueryOff
    /\ store = EmptyBag
    /\ embed = EmbedOff
    /\ calls = [p \in Procs |-> Idle]

\* faulty variant: the old rows are deleted as the upload starts
PDCallDeleteFirst(p, limit, docs) ==
    /\ CallEnded(calls[p])
    /\ calls[p].ncalls < limit
    /\ \E d \in docs, f \in Files, cp \in ChunkParams :
         /\ store' = DeleteDoc(store, d)
         /\ calls' = [calls EXCEPT ![p] =
                     [Idle EXCEPT !.pc = "extract", !.op = "process_document",
                                  !.ncalls = calls[p].ncalls + 1,
                                  !.document_id = d, !.file = f.filename,
                                  !.text = f.text,
                                  !.chunk_size = cp.chunk_size,
                                  !.overlap = cp.overlap,
                                  !.log = <<[op |-> "delete", ok |-> TRUE]>>,
                                  !.before = store,
                                  !.prev = Summary(calls[p])]]
    /\ UNCHANGED <<split, query, embed>>

\* main.py 66: upload_file calls process_document
PDCall(p, limit, docs) ==
    /\ CallEnded(calls[p])
    /\ calls[p].ncalls < limit
    /\ \E d \in docs, f \in Files, cp \in ChunkParams :
         calls' = [calls EXCEPT ![p] =
                     [Idle EXCEPT !.pc = "extract", !.op = "process_document",
                                  !.ncalls = calls[p].ncalls + 1,
                                  !.document_id = d, !.file = f.filename,
                                  !.text = f.text,
                                  !.chunk_size = cp.chunk_size,
                                  !.overlap = cp.overlap,
                                  !.before = store,
                                  !.prev = Summary(calls[p])]]
    /\ UNCHANGED <<split, query, store, embed>>

\* pipeline.py 45: extract_text (a parser may raise)
Extract(p) ==
    /\ calls[p].pc = "extract"
    /\ LET f == CHOOSE x \in Files : x.filename = calls[p].file IN
       calls' = [calls EXCEPT ![p] =
                   IF f.readable THEN [@ EXCEPT !.pc = "split"]
                   ELSE Raise(@, "ExtractError")]
    /\ UNCHANGED <<split, query, store, embed>>

\* pipeline.py 48-50: split_text_to_chunks, then the chunk texts
Split(p) ==
    /\ calls[p].pc = "split"
    /\ LET r == split_text_to_chunks(calls[p].text, calls[p].chunk_size,
                                     calls[p].overlap) IN
       calls' = [calls EXCEPT ![p] =
                   IF r.ok
                   THEN [@ EXCEPT !.pc = "embed",
                                  !.chunks = [i \in 1..Len(r.chunks) |-> r.chunks[i].text]]
                   ELSE Raise(@, "ValueError")]
    /\ UNCHANGED <<split, query, store, embed>>

\* pipeline.py 53-60: embed_texts (the model may raise), the metadata, and the
\* call of upsert_embeddings with delete_existing = True
Embed(p) ==
    /\ calls[p].pc = "embed"
    /\ \E ok \in BOOLEAN :
         LET c == calls[p] IN
         calls' = [calls EXCEPT ![p] =
                     IF ok \/ c.chunks = <<>>
                     THEN [c EXCEPT !.pc = "upsert",
                                    !.embeddings = embed_texts(c.chunks),
                                    !.metadata = Metadata([i \in 1..Len(c.chunks) |-> c.file]),
                                    !.delete_existing = TRUE]
                     ELSE Raise(c, "EmbedError")]
    /\ UNCHANGED <<split, query, store, embed>>

\* a direct call of upsert_embeddings
UpsertCall(p, limit) ==
    /\ CallEnded(calls[p])
    /\ calls[p].ncalls < limit
    /\ \E a \in UpsertArgs :
         calls' = [calls EXCEPT ![p] =
                     [Idle EXCEPT !.pc = "upsert", !.op = "upsert_embeddings",
                                  !.ncalls = calls[p].ncalls + 1,
                                  !.document_id = a.document_id,
                                  !.chunks = a.chunks,
                                  !.embeddings = a.embeddings,
                                  !.metadata = a.metadata,
                                  !.delete_existing = a.delete_existing,
                                  !.before = store,
                                  !.prev = Summary(calls[p])]]
    /\ UNCHANGED <<split, query, store, embed>>

\* faulty variant: the length checks are made after the delete, not before
AfterCheckDeleteFirst(c) ==
    IF c.delete_existing THEN [c EXCEPT !.pc = "delete"]
    ELSE IF Len(c.chunks) # Len(c.embeddings) THEN Raise(c, "ValueError")
    ELSE LET n == Len(c.chunks)
             md == IF c.metadata.given THEN c.metadata
                   ELSE Metadata([i \in 1..n |-> EmptyDict])
         IN  IF Len(md.list) # n THEN Raise(c, "ValueError")
             ELSE [c EXCEPT !.metadata = md, !.pc = "insert"]

\* vectorstore.py 140-149: the length checks and the default metadata
AfterCheck(c) ==
    IF Len(c.chunks) # Len(c.embeddings) THEN Raise(c, "ValueError")
    ELSE LET n == Len(c.chunks)
             md == IF c.metadata.given THEN c.metadata
                   ELSE Metadata([i \in 1..n |-> EmptyDict])
         IN  IF Len(md.list) # n THEN Raise(c, "ValueError")
             ELSE [c EXCEPT !.metadata = md,
                            !.pc = IF c.delete_existing THEN "delete" ELSE "insert"]

UpsertCheck(p) ==
    /\ calls[p].pc = "upsert"
    /\ calls' = [calls EXCEPT ![p] = AfterCheck(@)]
    /\ UNCHANGED <<split, query, store, embed>>

\* vectorstore.py 150-153: the caller's side of the delete
AfterDelete(c, o) ==
    LET logged == [c EXCEPT !.log = Append(c.log, [op |-> "delete", ok |-> o.applied])]
    IN  IF o.kind = "raise" THEN Raise(logged, "StoreException")
        ELSE IF RespHasError(o.resp) # NoError THEN Raise(logged, "RuntimeError")
        ELSE [logged EXCEPT !.pc = "insert"]

UpsertDelete(p) ==
    /\ calls[p].pc = "delete"
    /\ \E o \in StoreOutcomes(-1) :
         /\ store' = IF o.applied THEN DeleteDoc(store, calls[p].document_id) ELSE store
         /\ calls' = [calls EXCEPT ![p] = AfterDelete(@, o)]
    /\ UNCHANGED <<split, query, embed>>

\* faulty variant: a failed batch is skipped and the loop goes on
AfterInsertContinue(c, o, batch) ==
    [c EXCEPT !.log = Append(c.log, [op |-> "insert", ok |-> o.applied]),
              !.i = c.i + BATCH_SIZE]

\* vectorstore.py 172-184: the caller's side of one batch insert
AfterInsert(c, o, batch) ==
    LET logged == [c EXCEPT !.log = Append(c.log, [op |-> "insert", ok |-> o.applied])]
    IN  IF o.kind = "raise" THEN Raise(logged, "StoreException")
        ELSE IF RespHasError(o.resp) # NoError THEN Raise(logged, "RuntimeError")
        ELSE [logged EXCEPT
                !.i = c.i + BATCH_SIZE,
                !.inserted = c.inserted
                             + (IF o.resp.acked >= 0 THEN o.resp.acked ELSE Len(batch))]

\* vectorstore.py 171-184: one pass of the batch loop
UpsertInsert(p) ==
    /\ calls[p].pc = "insert"
    /\ calls[p].i < Len(calls[p].chunks)
    /\ LET batch == BatchAt(Rows(calls[p]), calls[p].i) IN
       \E o \in StoreOutcomes(Len(batch)) :
         /\ store' = IF o.applied THEN InsertRows(store, batch) ELSE store
         /\ calls' = [calls EXCEPT ![p] = AfterInsert(@, o, batch)]
    /\ UNCHANGED <<split, query, embed>>

\* vectorstore.py 186 and pipeline.py 62-67: the loop is over, both return
UpsertReturn(p) ==
    /\ calls[p].pc = "insert"
    /\ calls[p].i >= Len(calls[p].chunks)
    /\ LET c == calls[p] IN
       calls' = [calls EXCEPT ![p] =
                   [c EXCEPT !.pc = "returned",
                             !.result = [document_id |-> c.document_id,
                                         inserted |-> c.inserted,
                                         requested |-> Len(c.chunks)]]]
    /\ UNCHANGED <<split, query, store, embed>>

\* one client, one call after the other, of either entry point
UpsertNext ==
    \E p \in {1} :
       \/ PDCall(p, MaxCalls, DocIds)
       \/ UpsertCall(p, MaxCalls)
       \/ Extract(p) \/ Split(p) \/ Embed(p)
       \/ UpsertCheck(p) \/ UpsertDelete(p) \/ UpsertInsert(p) \/ UpsertReturn(p)

SpecUpsert == IngestInit /\ [][UpsertNext]_vars

\* the server runs one upload per client concurrently, for the same document
ConcurrentNext ==
    \E p \in Procs :
       \/ PDCall(p, 1, {"D1"})
       \/ Extract(p) \/ Split(p) \/ Embed(p)
       \/ UpsertCheck(p) \/ UpsertDelete(p) \/ UpsertInsert(p) \/ UpsertReturn(p)

SpecConcurrent == IngestInit /\ [][ConcurrentNext]_vars

\* ------------------------------------- embeddings.py: the cached model
EmbedThreads == 1..NumThreads

\* _model = None
NoModel == 0

\* a worker thread that has not called embed_texts yet
ThreadIdle == [pc |-> "idle", empty |-> FALSE, made |-> NoModel, model |-> NoModel]

\* module load: _model is None and no constructor has run
EmbedInit ==
    /\ split = SplitOff
    /\ query = QueryOff
    /\ store = EmptyBag
    /\ calls = CallsOff
    /\ embed = [model |-> NoModel, built |-> 0, th |-> [t \in EmbedThreads |-> ThreadIdle]]

\* lines 42-45: embed_texts returns [] for no texts, else calls get_model
ECall(t) ==
    /\ embed.th[t].pc = "idle"
    /\ \E empty \in BOOLEAN :
         embed' = [embed EXCEPT !.th[t] =
                     [ThreadIdle EXCEPT !.empty = empty,
                                        !.pc = IF empty THEN "returned" ELSE "test"]]
    /\ UNCHANGED <<split, query, store, calls>>

\* line 31: if _model is None
ETest(t) ==
    /\ embed.th[t].pc = "test"
    /\ embed' = [embed EXCEPT !.th[t].pc =
                   IF embed.model = NoModel THEN "construct" ELSE "return"]
    /\ UNCHANGED <<split, query, store, calls>>

\* line 32, right-hand side: SentenceTransformer(MODEL_NAME) builds a new
\* model object (or raises); the thread can be descheduled while it loads
EConstruct(t) ==
    /\ embed.th[t].pc = "construct"
    /\ \E ok \in BOOLEAN :
         embed' = IF ok
                  THEN [embed EXCEPT !.built = embed.built + 1,
                                     !.th[t].made = embed.built + 1,
                                     !.th[t].pc = "assign"]
                  ELSE [embed EXCEPT !.th[t].pc = "raised"]
    /\ UNCHANGED <<split, query, store, calls>>

\* line 32, the store to the global: _model = <the new object>
EAssign(t) ==
    /\ embed.th[t].pc = "assign"
    /\ embed' = [embed EXCEPT !.model = embed.th[t].made, !.th[t].pc = "return"]
    /\ UNCHANGED <<split, query, store, calls>>

\* line 33 and line 45: return _model; model = get_model()
EReturn(t) ==
    /\ embed.th[t].pc = "return"
    /\ embed' = [embed EXCEPT !.th[t].model = embed.model, !.th[t].pc = "encode"]
    /\ UNCHANGED <<split, query, store, calls>>

\* lines 46-59: the batches are encoded with the handle the thread holds
EEncode(t) ==
    /\ embed.th[t].pc = "encode"
    /\ embed' = [embed EXCEPT !.th[t].pc = "returned"]
    /\ UNCHANGED <<split, query, store, calls>>

\* asyncio.to_thread runs each embed_texts call in a worker thread of its own
EmbedNext ==
    \E t \in EmbedThreads :
       ECall(t) \/ ETest(t) \/ EConstruct(t) \/ EAssign(t) \/ EReturn(t) \/ EEncode(t)

SpecEmbed == EmbedInit /\ [][EmbedNext]_vars

\* ======================================================== claims: splitter
SplitDone == split.pc \in {"returned", "raised"}

\* the text of chunk i (0-based) as the specification states it:
\* text[i*step : i*step + chunk_size], character by character
WindowAt(text, lo, size) ==
    [j \in 1..(Min(lo + size, Len(text)) - lo) |-> text[lo + j]]

\* C8: for non-empty text, chunk_size > 0 and overlap >= 0 the splitter returns
\* N = ceil(len(text)/step) chunks, step = max(chunk_size - overlap, 1); chunk i
\* has chunk_id i and text text[i*step : i*step + chunk_size]; no chunk is empty
\* and once a chunk is shorter than chunk_size all later ones are; for empty
\* text the result is the empty sequence.
C8_SplitWindows ==
    LET text == split.l.text
        size == split.l.chunk_size
        ovl  == split.l.overlap
        cs   == split.l.chunks
        st   == IF size - ovl >= 1 THEN size - ovl ELSE 1
        N    == (Len(text) + st - 1) \div st
    IN  SplitDone =>
          IF text = <<>>
          THEN split.pc = "returned" /\ cs = <<>>
          ELSE (size > 0 /\ ovl >= 0) =>
                 /\ split.pc = "returned"
                 /\ Len(cs) = N
                 /\ \A i \in 1..Len(cs) :
                      /\ cs[i].chunk_id = i - 1
                      /\ cs[i].text = WindowAt(text, (i - 1) * st, size)
                      /\ Len(cs[i].text) >= 1
                      /\ Len(cs[i].text) <= size
                 /\ \A i, j \in 1..Len(cs) :
                      (i < j /\ Len(cs[i].text) < size) => Len(cs[j].text) < size

\* a split with overlap that yields three or more chunks, the last one short
C8_Witness ==
    /\ split.pc = "returned"
    /\ split.l.overlap > 0
    /\ split.l.overlap < split.l.chunk_size
    /\ Len(split.l.chunks) >= 3
    /\ Len(split.l.chunks[Len(split.l.chunks)].text) < split.l.chunk_size

\* a chunk without its first n characters (Python's s[n:])
DropFirst(s, n) == SubSeq(s, n + 1, Len(s))

RECURSIVE Reassemble(_, _, _)
Reassemble(cs, ovl, i) ==
    IF i > Len(cs) THEN <<>>
    ELSE (IF i = 1 THEN cs[i].text ELSE DropFirst(cs[i].text, ovl))
         \o Reassemble(cs, ovl, i + 1)

\* C9: for non-empty text, chunk_size > 0 and 0 <= overlap < chunk_size, chunk 0
\* followed by every later chunk without its first `overlap` characters is
\* the text again.
C9_Reconstruct ==
    (/\ split.pc = "returned"
     /\ split.l.text # <<>>
     /\ split.l.chunk_size > 0
     /\ split.l.overlap >= 0
     /\ split.l.overlap < split.l.chunk_size)
    => Reassemble(split.l.chunks, split.l.overlap, 1) = split.l.text

\* a reconstruction from overlapping chunks, one of them shorter than the overlap
C9_Witness ==
    /\ split.pc = "returned"
    /\ split.l.overlap >= 2
    /\ split.l.overlap < split.l.chunk_size
    /\ Len(split.l.chunks) >= 3
    /\ Len(split.l.chunks[Len(split.l.chunks)].text) < split.l.overlap
    /\ Reassemble(split.l.chunks, split.l.overlap, 1) = split.l.text

Degenerate == split.l.chunk_size > 0 /\ split.l.overlap >= split.l.chunk_size

\* C10: for chunk_size > 0 and overlap >= chunk_size the loop terminates: start
\* grows by exactly 1 on every iteration, the loop runs len(text) iterations
\* and the call returns len(text) chunks.
C10_DegenerateTerminates ==
    /\ [][(Degenerate /\ split.pc = "loop" /\ split'.pc = "loop")
            => split'.l.start = split.l.start + 1]_vars
    /\ []((Degenerate /\ split.pc = "returned")
            => /\ split.iterations = Len(split.l.text)
               /\ Len(split.l.chunks) = Len(split.l.text))
    /\ <>(Degenerate => split.pc = "returned")

\* a degenerate split of a text of three or more characters has returned
C10_Witness ==
    /\ Degenerate
    /\ split.pc = "returned"
    /\ Len(split.l.text) >= 3
    /\ split.iterations = Len(split.l.text)

\* C11: split_text_to_chunks fails with ValueError whenever chunk_size <= 0 or
\* overlap < 0, for every text (the empty text included), and returns no
\* chunk sequence then.
C11_BadParametersRaise ==
    (SplitDone /\ (split.l.chunk_size <= 0 \/ split.l.overlap < 0))
    => split.pc = "raised"


\* ================================================= claims: answer composer
QueryEnded == query.pc \in {"returned", "raised"}

\* the retrieval itself succeeded (embedding and query_similar did not raise)
Retrieved ==
    /\ query.pc \in {"retrieved", "complete", "return", "returned", "raised"}
    /\ query.error \notin {"EmbedError", "RuntimeError"}

\* one source per hit, in hit order, with the hit's identity
SourcesMatchHits ==
    /\ Len(query.sources) = Len(query.hits)
    /\ \A i \in 1..Len(query.hits) :
         /\ query.sources[i].id = HitRow(query.hits[i]).id
         /\ query.sources[i].document_id = HitRow(query.hits[i]).document_id
         /\ query.sources[i].chunk_id = HitRow(query.hits[i]).chunk_id
         /\ query.sources[i].score = HitRow(query.hits[i]).score

\* C3: with zero hits, or hits whose combined context is empty, answer_query
\* returns normally with the fixed no-context message and the sources list, and
\* posts nothing to the completion service.
C3_NoContextAnswer ==
    (QueryEnded /\ Retrieved /\ CombinedContext(query.hits) = <<>>)
    => /\ query.pc = "returned"
       /\ query.answer.bound
       /\ query.answer.marker = MsgNoContext
       /\ SourcesMatchHits
       /\ query.posts = 0

\* s is the first min(len(t), n) characters of t
IsPrefixCut(s, t, n) ==
    LET tt == t IN s = SubSeq(tt, 1, IF Len(tt) <= n THEN Len(tt) ELSE n)

\* one piece of the extractive summary: the stripped chunk, newlines as
\* spaces, at most 200 characters
SummaryPiece(c) ==
    LET t == Strip(c)
    IN  [j \in 1..(IF Len(t) <= 200 THEN Len(t) ELSE 200) |->
            IF t[j] = "\n" THEN " " ELSE t[j]]

\* the completion call was attempted and failed
CompletionFailed == query.outcome.kind \in {"HTTPError", "Timeout", "RuntimeError", "ValueError"}

\* C4: with a non-empty combined context and a failed completion call,
\* answer_query does not raise; it returns the sources (one per hit, in hit
\* order) and an answer: on HTTP 410 the marked summary of the first 3 chunks,
\* on any other failure the marked combined context cut to 1200 characters;
\* the completion service is posted to at most once.
C4_CompletionFallback ==
    (Retrieved /\ CombinedContext(query.hits) # <<>> /\ CompletionFailed)
    => LET cs == Contexts(query.hits)
           n  == IF Len(cs) <= 3 THEN Len(cs) ELSE 3
           is410 == query.outcome.kind = "HTTPError" /\ query.outcome.status = 410
       IN  /\ query.pc \in {"return", "returned"}
           /\ query.answer.bound
           /\ SourcesMatchHits
           /\ \A i \in 1..Len(query.hits) :
                IsPrefixCut(query.sources[i].text, cs[i], 500)
           /\ query.posts <= 1
           /\ is410 =>
                /\ query.answer.marker = MsgUnavailable
                /\ query.answer.body =
                     Join(SummarySep, [i \in 1..n |-> SummaryPiece(cs[i])])
           /\ ~is410 =>
                /\ query.answer.marker \in {MsgHttpError, MsgCallFailed}
                /\ (query.answer.marker = MsgHttpError)
                     <=> (query.outcome.kind = "HTTPError")
                /\ IsPrefixCut(query.answer.body, CombinedContext(query.hits), 1200)

\* a 410 with four hits, the long chunk among the first three
C4_Witness ==
    /\ query.pc = "returned"
    /\ query.outcome.kind = "HTTPError"
    /\ query.outcome.status = 410
    /\ Len(query.hits) = 4
    /\ query.hits[2] = 4
    /\ query.answer.marker = MsgUnavailable
    /\ Len(query.sources) = 4

\* ===================================================== claims: vector store
\* the rows of document d are exactly chunk_ids 0..n-1 of c's chunks, once each
HoldsExactly(table, c, n) ==
    LET R == RowsOf(table, c.document_id)
    IN  /\ BagCardinality(R) = n
        /\ \A j \in 0..(n - 1) :
             \E r \in DOMAIN R :
                /\ r.chunk_id = j
                /\ r.chunk_text = c.chunks[j + 1]
                /\ R[r] = 1

\* the second of two successful process_document calls for one document_id
Reingested(c) ==
    /\ c.pc = "returned"
    /\ c.op = "process_document"
    /\ c.prev.op = "process_document"
    /\ c.prev.pc = "returned"
    /\ c.prev.document_id = c.document_id
    /\ c.prev.chunks # c.chunks

\* C1: after two sequential successful process_document calls for the same
\* document_id with different content, the store holds for it exactly the N
\* rows of the second ingest: chunk_ids 0..N-1, each once, each with the
\* second content's chunk text.
C1_ReingestReplaces ==
    Reingested(calls[1]) => HoldsExactly(store, calls[1], Len(calls[1].chunks))

\* a re-ingest of fewer chunks over more chunks
C1_Witness ==
    /\ Reingested(calls[1])
    /\ Len(calls[1].prev.chunks) > Len(calls[1].chunks)
    /\ Len(calls[1].chunks) >= 1

\* C2: once two concurrent process_document calls for the same document_id
\* have both returned successfully, the rows of that document_id are exactly
\* the chunks of one of the two ingests, each chunk_id once.
C2_ConcurrentSingleIngest ==
    (/\ \A p \in Procs : calls[p].pc = "returned" /\ calls[p].op = "process_document"
     /\ calls[1].document_id = calls[2].document_id)
    => \E p \in Procs : HoldsExactly(store, calls[p], Len(calls[p].chunks))

\* the store calls of c: a delete was issued and failed
DeleteFailed(c) ==
    /\ c.delete_existing
    /\ c.log # <<>>
    /\ c.log[1].op = "delete"
    /\ ~c.log[1].ok

\* C5: with delete_existing the delete is issued before any insert of the
\* call, and a failed delete (an error reported or an exception) makes the
\* upsert raise without any insert: the store gains no row.
C5_DeleteBeforeInsert ==
    LET c == calls[1] IN
    /\ (c.delete_existing /\ c.log # <<>>)
         => /\ c.log[1].op = "delete"
            /\ \A j \in 2..Len(c.log) : c.log[j].op = "insert" /\ c.log[1].ok
    /\ DeleteFailed(c)
         => /\ c.pc = "raised"
            /\ c.error \in {"RuntimeError", "StoreException"}
            /\ Len(c.log) = 1
            /\ \A r \in DOMAIN store :
                 r \in DOMAIN c.before /\ store[r] <= c.before[r]

\* the store reported an error for the delete of a document that has rows
C5_Witness ==
    /\ DeleteFailed(calls[1])
    /\ calls[1].pc = "raised"
    /\ calls[1].error = "RuntimeError"
    /\ RowsOf(store, calls[1].document_id) # EmptyBag

\* the number of batches the store accepted
Accepted(c) == Cardinality({j \in 1..Len(c.log) : c.log[j].op = "insert" /\ c.log[j].ok})

\* the store reported an error for an insert of c
InsertFailed(c) ==
    \E j \in 1..Len(c.log) : c.log[j].op = "insert" /\ ~c.log[j].ok

\* C6: when the insert of batch k reports an error, upsert_embeddings raises
\* at once, sends no further batch and rolls nothing back: with
\* delete_existing and no concurrent writer the rows of document_id are
\* exactly chunk_ids 0..k*BATCH_SIZE-1.
C6_PartialInsertKept ==
    LET c == calls[1]
        k == Accepted(c)
    IN  InsertFailed(c)
        => /\ c.pc = "raised"
           /\ ~c.log[Len(c.log)].ok
           /\ \A j \in 1..(Len(c.log) - 1) : c.log[j].ok
           /\ (c.error = "RuntimeError" /\ c.delete_existing)
                => /\ k = Len(c.log) - 2
                   /\ HoldsExactly(store, c, k * BATCH_SIZE)

\* the third batch was refused after two were stored
C6_Witness ==
    /\ InsertFailed(calls[1])
    /\ calls[1].error = "RuntimeError"
    /\ calls[1].delete_existing
    /\ Accepted(calls[1]) = 2
    /\ BagCardinality(RowsOf(store, calls[1].document_id)) = 2 * BATCH_SIZE

\* the arguments of c do not have one length
ShapeMismatch(c) ==
    \/ Len(c.chunks) # Len(c.embeddings)
    \/ c.metadata.given /\ Len(c.metadata.list) # Len(c.chunks)

\* C7: upsert_embeddings with len(chunks) # len(embeddings), or a metadata
\* list of another length, raises ValueError before any store call: no
\* delete, no insert, the store unchanged, also with delete_existing.
C7_ShapeCheckedFirst ==
    LET c == calls[1] IN
    (c.op = "upsert_embeddings" /\ ShapeMismatch(c))
    => /\ c.log = <<>>
       /\ store = c.before
       /\ c.pc \in {"upsert", "raised"}
       /\ c.pc = "raised" => c.error = "ValueError"

\* a mismatched upsert with delete_existing for a document that has rows
C7_Witness ==
    /\ calls[1].op = "upsert_embeddings"
    /\ ShapeMismatch(calls[1])
    /\ calls[1].delete_existing
    /\ calls[1].pc = "raised"
    /\ RowsOf(store, calls[1].document_id) # EmptyBag

\* ==================================================== claims: cached model
\* C12: the model constructor runs at most once per process, also when several
\* threads call embed_texts before the first initialization has finished, and
\* every caller encodes with the same handle.
C12_ModelInitOnce ==
    /\ embed.built <= 1
    /\ \A t, u \in EmbedThreads :
         (embed.th[t].model # NoModel /\ embed.th[u].model # NoModel)
         => embed.th[t].model = embed.th[u].model

\* ================================================ claims: ingest pipeline
\* the order of the steps of one process_document call
PDOrder ==
    {<<"extract", "split">>, <<"extract", "raised">>,
     <<"split", "embed">>, <<"split", "raised">>,
     <<"embed", "upsert">>, <<"embed", "raised">>,
     <<"upsert", "delete">>, <<"upsert", "raised">>,
     <<"delete", "insert">>, <<"delete", "raised">>,
     <<"insert", "returned">>, <<"insert", "raised">>}

\* the call failed in extraction, splitting or embedding
FailedBeforeUpsert(c) ==
    /\ c.op = "process_document"
    /\ c.pc = "raised"
    /\ c.error \in {"ExtractError", "ValueError", "EmbedError"}

\* no store call was issued by c and the store is as c found it
StoreUntouched(c) == c.log = <<>> /\ store = c.before

\* C13: one process_document call runs extract, split, embed, upsert in this
\* order, each after the one before it succeeded; no store call is issued
\* before the upsert starts, so a failed extraction, split or embedding
\* leaves the rows stored for document_id as they were.
C13_StepsInOrder ==
    /\ []((calls[1].op = "process_document"
             /\ calls[1].pc \in {"extract", "split", "embed", "upsert"})
          => StoreUntouched(calls[1]))
    /\ [](FailedBeforeUpsert(calls[1]) => StoreUntouched(calls[1]))
    /\ [][(/\ calls[1].op = "process_document"
           /\ calls'[1].op = "process_document"
           /\ calls'[1].ncalls = calls[1].ncalls
           /\ calls'[1].pc # calls[1].pc)
          => <<calls[1].pc, calls'[1].pc>> \in PDOrder]_vars

\* the embedding failed for a document that has rows from an earlier ingest
C13_Witness ==
    /\ FailedBeforeUpsert(calls[1])
    /\ calls[1].error = "EmbedError"
    /\ calls[1].log = <<>>
    /\ RowsOf(store, calls[1].document_id) # EmptyBag
    /\ store = calls[1].before

====
